---- MODULE Spec2Model ----
(***************************************************************************)
(* Model of src/markerstack.py: the MarkerStack package for Sublime Text.  *)
(* One View is modelled: its buffer length, its selection (caret set), its *)
(* viewport position, its settings store and its region dictionary (the    *)
(* gutter icons that act as live anchors).  The two TextCommands           *)
(* (MarkerStackPushCommand.run, MarkerStackPopCommand.run) are the         *)
(* operations; buffer edits, caret moves and scrolling are the host's.     *)
(* A second View, the package option "ms_animate_scrolling" and the        *)
(* statement-by-statement run of a command have specifications of their    *)
(* own (SpecTwoViews, SpecConfigured, SpecSteps).                          *)
(***************************************************************************)
EXTENDS Integers, Sequences, FiniteSets, TLC

\* ------------------------------------------------------------------------
\* Bounds of the model
\* ------------------------------------------------------------------------
MaxSize == 1
MaxDepth == 2
MaxScroll == 1

\* ------------------------------------------------------------------------
\* Configuration values (module globals of markerstack.py)
\* ------------------------------------------------------------------------
_rgn_key_prefix == "_marker_stack_icon_"
_stack_key == "_marker_stack"

VARIABLES
    size,         \* length of the View's buffer
    sel,          \* vw.sel(): sequence of regions [a, b]; b is the caret
    viewport,     \* vw.viewport_position(): <<x, y>>
    vw_settings,  \* vw.settings(): key -> value, a key is present or absent
    regions,      \* the View's region dictionary: key -> sequence of regions
    pushlog,      \* history: what the pushes of the topmost markers captured
    allocated,    \* history: every icon key a push has formulated so far
    last,         \* history: the last step taken and what it observed
    owned,        \* history: keys whose marker and icon come from one push
    ms_animate_scrolling,  \* "ms_animate_scrolling" in the package settings
    _animate_scroll,       \* the module global _animate_scroll
    other,        \* a second View: its selection, viewport, settings, regions
    run           \* the command in progress when commands are run stepwise

vars == <<size, sel, viewport, vw_settings, regions, pushlog, allocated, last,
          owned, ms_animate_scrolling, _animate_scroll, other, run>>

\* What a command on this View, or a host step on it, leaves alone.
background == <<ms_animate_scrolling, _animate_scroll, other, run>>

\* ------------------------------------------------------------------------
\* Values
\* ------------------------------------------------------------------------
Viewports == {<<0, y>> : y \in 0..MaxScroll}

\* sublime.Region(a, b); sublime.Region(pt) is the zero-width region at pt.
Region(a, b) == [a |-> a, b |-> b]

\* The marker dictionary {'vp': vp, 'id': icon_key}.
MarkerStackMarker(vp, icon_key) == [vp |-> vp, id |-> icon_key]

\* Variant: every icon is stored under the one shared key.
IconKeyShared(marker_idx) == _rgn_key_prefix

\* Variant: the index is taken after the marker has been appended.
IconKeyOneBased(marker_idx) == _rgn_key_prefix \o ToString(marker_idx + 1)

\* f'{_rgn_key_prefix}{marker_idx}'
IconKey(marker_idx) == _rgn_key_prefix \o ToString(marker_idx)

\* ------------------------------------------------------------------------
\* The host's key-value stores
\* ------------------------------------------------------------------------
NoEntries == [k \in {} |-> <<>>]

\* Settings.set(key, value): the value replaces whatever the key held.
SettingsSet(store, key, value) ==
    [k \in DOMAIN store \cup {key} |-> IF k = key THEN value ELSE store[k]]

\* Settings.erase(key)
SettingsErase(store, key) == [k \in DOMAIN store \ {key} |-> store[k]]

\* View.add_regions(key, rgns, ...): the list replaces the key's regions.
add_regions(dict, key, rgns) ==
    [k \in DOMAIN dict \cup {key} |-> IF k = key THEN rgns ELSE dict[k]]

\* View.get_regions(key): the key's regions, [] when the key is unknown.
get_regions(dict, key) == IF key \in DOMAIN dict THEN dict[key] ELSE <<>>

\* View.erase_regions(key): removes the regions stored under exactly key.
erase_regions(dict, key) == [k \in DOMAIN dict \ {key} |-> dict[k]]

\* ------------------------------------------------------------------------
\* Derived views of the state
\* ------------------------------------------------------------------------
HasStack == _stack_key \in DOMAIN vw_settings

\* The persisted stack, <<>> when the key is absent.
Stack == IF HasStack THEN vw_settings[_stack_key] ELSE <<>>

StackKeys == {Stack[i].id : i \in 1..Len(Stack)}

\* Keys that follow the naming scheme prefix + index.
IndexedKeys == {IconKey(i) : i \in 0..MaxDepth}

Observed(cmd, raised, marker, rgns, entry) ==
    [cmd |-> cmd, raised |-> raised, marker |-> marker, rgns |-> rgns,
     entry |-> entry, nsel |-> 0, animate |-> "none"]

\* ------------------------------------------------------------------------
\* Package initialization: init(), called by plugin_loaded()
\* ------------------------------------------------------------------------
\* The value the module gives _animate_scroll when it is loaded.
ModuleAnimateScroll == FALSE

\* ms_setting(key): the value in the settings object, else the default.
ms_setting(value, default) == IF value = "unset" THEN default ELSE value

\* The module global _animate_scroll once init() has run.  init() declares
\* _pkg_name, _icon_path and _icon_color global, not _animate_scroll: the
\* fetched option is bound to a local name and the global keeps its value.
InitAnimateScroll(option, module_value) ==
    LET local == ms_setting(option, "false") IN module_value

\* A View nothing has been done to.
BlankView ==
    [sel |-> <<Region(0, 0)>>, viewport |-> <<0, 0>>,
     vw_settings |-> NoEntries, regions |-> NoEntries]

\* No command in progress.
Idle ==
    [cmd |-> "none", i |-> 0, mstack |-> <<>>, marker |-> <<>>, pt |-> 0,
     rgns |-> <<>>, fetched |-> FALSE]

\* ------------------------------------------------------------------------
\* Initial state: a View with no stack and no gutter icons.
\* ------------------------------------------------------------------------
InitView ==
    /\ size \in 0..MaxSize
    /\ sel = <<Region(0, 0)>>
    /\ viewport = <<0, 0>>
    /\ vw_settings = NoEntries
    /\ regions = NoEntries
    /\ pushlog = <<>>
    /\ allocated = {}
    /\ owned = {}
    /\ other = BlankView
    /\ run = Idle
    /\ last = Observed("none", "none", <<>>, <<>>, <<>>)

Init ==
    /\ InitView
    /\ ms_animate_scrolling = "unset"
    /\ _animate_scroll =
            InitAnimateScroll(ms_animate_scrolling, ModuleAnimateScroll)

\* The same, with "ms_animate_scrolling" set by the user or left unset.
InitConfigured ==
    /\ InitView
    /\ ms_animate_scrolling \in {"unset", "true", "false"}
    /\ _animate_scroll =
            InitAnimateScroll(ms_animate_scrolling, ModuleAnimateScroll)

\* ------------------------------------------------------------------------
\* MarkerStackPushCommand.run
\* ------------------------------------------------------------------------
\* Step 2: the stack read from the settings, [] when the key is None.
PushLoad(store) == IF _stack_key \in DOMAIN store THEN store[_stack_key] ELSE <<>>

\* Variant: the new marker is inserted at the front of the list.
PushSavePrepend(store, mstack, vppos) ==
    SettingsSet(store, _stack_key,
                <<MarkerStackMarker(vppos, IconKey(Len(mstack)))>> \o mstack)

\* Steps 4-6: the settings after the new marker is appended and saved.
PushSave(store, mstack, vppos) ==
    SettingsSet(store, _stack_key,
                Append(mstack, MarkerStackMarker(vppos, IconKey(Len(mstack)))))

\* Variant: the icon is added to a single region list with a single key.
PushIconSingleKey(dict, icon_key, pt) ==
    add_regions(dict, _rgn_key_prefix, <<Region(pt, pt)>>)

\* Variant: the point is taken from the last caret of the selection.
PushCaretLast(sel_list) == sel_list[Len(sel_list)].b

\* Step 3: the caret position, vw.sel()[0].b.
PushCaret(sel_list) == sel_list[1].b

\* Step 7: the region dictionary after the icon is added at the caret.
PushIcon(dict, icon_key, pt) == add_regions(dict, icon_key, <<Region(pt, pt)>>)

MarkerStackPush ==
    LET mstack == PushLoad(vw_settings) IN
    /\ Len(mstack) < MaxDepth
    /\ UNCHANGED background
    /\ IF Len(sel) = 0
       THEN \* vw.sel()[0] raises before anything is written
            /\ last' = Observed("push", "IndexError", <<>>, <<>>, <<>>)
            /\ UNCHANGED <<size, sel, viewport, vw_settings, regions,
                           pushlog, allocated, owned>>
       ELSE LET pt == PushCaret(sel)
                vppos == viewport
                marker_idx == Len(mstack)
                icon_key == IconKey(marker_idx)
                marker == MarkerStackMarker(vppos, icon_key)
                entry == [pt |-> pt, vp |-> vppos, clean |-> TRUE]
            IN  /\ vw_settings' = PushSave(vw_settings, mstack, vppos)
                /\ regions' = PushIcon(regions, icon_key, pt)
                /\ pushlog' = Append(pushlog, entry)
                /\ allocated' = allocated \cup {icon_key}
                /\ owned' = owned \cup {icon_key}
                /\ last' = [Observed("push", "none", <<marker>>,
                                     <<Region(pt, pt)>>, <<entry>>)
                               EXCEPT !.nsel = Len(sel)]
                /\ UNCHANGED <<size, sel, viewport>>

\* ------------------------------------------------------------------------
\* MarkerStackPopCommand.run
\* ------------------------------------------------------------------------
\* Variant: the marker is taken from the bottom of the stack.
PopBottom(mstack) == mstack[1]

\* Step 3: the marker that mstack.pop() returns.
PopTop(mstack) == mstack[Len(mstack)]

\* Variant: the emptied stack is saved back instead of the key being erased.
PopSaveKeepKey(store, mstack) ==
    SettingsSet(store, _stack_key, SubSeq(mstack, 1, Len(mstack) - 1))

\* Variant: the first marker is removed from the list, not the last.
PopSaveFirst(store, mstack) ==
    LET rest == SubSeq(mstack, 2, Len(mstack)) IN
    IF Len(rest) = 0
    THEN SettingsErase(store, _stack_key)
    ELSE SettingsSet(store, _stack_key, rest)

\* Step 3: the settings after the top marker is popped off mstack.
PopSave(store, mstack) ==
    LET rest == SubSeq(mstack, 1, Len(mstack) - 1) IN
    IF Len(rest) = 0
    THEN SettingsErase(store, _stack_key)
    ELSE SettingsSet(store, _stack_key, rest)

\* Variant: every key of the prefix namespace is erased.
PopEmptyCleanupAll(dict) ==
    [k \in DOMAIN dict \ (IndexedKeys \cup {_rgn_key_prefix}) |-> dict[k]]

\* Branch taken when the stack is None: the region key that is erased.
PopEmptyCleanup(dict) == erase_regions(dict, _rgn_key_prefix)

\* Variant: the regions are fetched after the key has been erased.
PopFetchAfterErase(dict, icon_key) ==
    get_regions(erase_regions(dict, icon_key), icon_key)

\* Step 4: the regions fetched with the key stored in the popped marker.
PopFetch(dict, icon_key) == get_regions(dict, icon_key)

\* Variant: every icon is removed from the region dictionary.
PopEraseAllIcons(dict, icon_key) == NoEntries

\* Variant: the icon is left in the region dictionary.
PopKeepIcon(dict, icon_key) == dict

\* Step 5: the region dictionary after the icon is removed.
PopEraseIcon(dict, icon_key) == erase_regions(dict, icon_key)

\* Variant: the region is added without clearing the selection first.
PopSelectionNoClear(sel_list, rgns) ==
    IF Len(rgns) > 0 THEN Append(sel_list, rgns[1]) ELSE sel_list

\* Variant: the selection is cleared before the regions are looked at.
PopSelectionClearFirst(sel_list, rgns) ==
    IF Len(rgns) > 0 THEN <<rgns[1]>> ELSE <<>>

\* Step 7: the selection after the pop, given the regions found at step 4.
PopSelection(sel_list, rgns) ==
    IF Len(rgns) > 0 THEN <<rgns[1]>> ELSE sel_list

\* Step 6: the animate argument of set_viewport_position.
PopAnimate(animate_scroll) == IF animate_scroll THEN "animated" ELSE "plain"

MarkerStackPop ==
    /\ UNCHANGED background
    /\ IF _stack_key \notin DOMAIN vw_settings
       THEN /\ regions' = PopEmptyCleanup(regions)
            /\ last' = Observed("pop", "none", <<>>, <<>>, <<>>)
            /\ UNCHANGED <<size, sel, viewport, vw_settings, pushlog, allocated,
                           owned>>
       ELSE LET mstack == vw_settings[_stack_key] IN
            IF Len(mstack) = 0
            THEN \* mstack.pop() on an empty list raises IndexError
                 /\ last' = Observed("pop", "IndexError", <<>>, <<>>, <<>>)
                 /\ UNCHANGED <<size, sel, viewport, vw_settings, regions,
                                pushlog, allocated, owned>>
            ELSE LET marker == PopTop(mstack)
                     icon_key == marker.id
                     rgns == PopFetch(regions, icon_key)
                     entry == IF Len(pushlog) > 0
                              THEN <<pushlog[Len(pushlog)]>> ELSE <<>>
                 IN  /\ vw_settings' = PopSave(vw_settings, mstack)
                     /\ regions' = PopEraseIcon(regions, icon_key)
                     /\ viewport' = marker.vp
                     /\ sel' = PopSelection(sel, rgns)
                     /\ pushlog' = SubSeq(pushlog, 1, Len(pushlog) - 1)
                     /\ owned' = owned \ {icon_key}
                     /\ last' = [Observed("pop", "none", <<marker>>, rgns, entry)
                                    EXCEPT !.nsel = Len(sel),
                                           !.animate = PopAnimate(_animate_scroll)]
                     /\ UNCHANGED <<size, allocated>>

\* ------------------------------------------------------------------------
\* The host: buffer edits, caret moves, scrolling
\* ------------------------------------------------------------------------
\* Where a point ends up after one character is inserted at p.
AfterInsert(q, p) == IF q >= p THEN q + 1 ELSE q

\* Where a point ends up after the character at p is erased.
AfterErase(q, p) == IF q > p THEN q - 1 ELSE q

\* The regions after an edit at p (inserting when ins, erasing otherwise).
MoveRegions(rgns, p, ins) ==
    [i \in 1..Len(rgns) |->
        IF ins
        THEN Region(AfterInsert(rgns[i].a, p), AfterInsert(rgns[i].b, p))
        ELSE Region(AfterErase(rgns[i].a, p), AfterErase(rgns[i].b, p))]

\* Carets that end up on the same region are merged by the host.
MergeSel(s) == IF Len(s) = 2 /\ s[1] = s[2] THEN <<s[1]>> ELSE s

Edited(log) == [i \in 1..Len(log) |-> [log[i] EXCEPT !.clean = FALSE]]

InsertText ==
    \E p \in 0..size :
        /\ size < MaxSize
        /\ size' = size + 1
        /\ sel' = MergeSel(MoveRegions(sel, p, TRUE))
        /\ regions' = [k \in DOMAIN regions |-> MoveRegions(regions[k], p, TRUE)]
        /\ pushlog' = Edited(pushlog)
        /\ last' = Observed("other", "none", <<>>, <<>>, <<>>)
        /\ UNCHANGED <<viewport, vw_settings, allocated, owned, background>>

EraseText ==
    \E p \in 0..(size - 1) :
        /\ size' = size - 1
        /\ sel' = MergeSel(MoveRegions(sel, p, FALSE))
        /\ regions' = [k \in DOMAIN regions |-> MoveRegions(regions[k], p, FALSE)]
        /\ pushlog' = Edited(pushlog)
        /\ last' = Observed("other", "none", <<>>, <<>>, <<>>)
        /\ UNCHANGED <<viewport, vw_settings, allocated, owned, background>>

\* The selections a user can make: one region, or two carets.
Selections ==
    {<<Region(a, b)>> : a \in 0..size, b \in 0..size}
        \cup {<<Region(p, p), Region(q, q)>> : p \in 0..size, q \in 0..size}

\* Regions of a selection run forward and are kept in buffer order.
WellFormed(s) ==
    /\ \A i \in 1..Len(s) : s[i].a <= s[i].b
    /\ Len(s) = 2 => s[1].b < s[2].a

MoveCaret ==
    \E s \in Selections :
        /\ WellFormed(s)
        /\ s # sel
        /\ sel' = s
        /\ last' = Observed("other", "none", <<>>, <<>>, <<>>)
        /\ UNCHANGED <<size, viewport, vw_settings, regions, pushlog, allocated,
                       owned, background>>

Scroll ==
    \E vp \in Viewports :
        /\ vp # viewport
        /\ viewport' = vp
        /\ last' = Observed("other", "none", <<>>, <<>>, <<>>)
        /\ UNCHANGED <<size, sel, vw_settings, regions, pushlog, allocated,
                       owned, background>>

\* ------------------------------------------------------------------------
\* Specification: whole commands, edits, caret moves and scrolling
\* ------------------------------------------------------------------------
Next ==
    \/ MarkerStackPush
    \/ MarkerStackPop
    \/ InsertText
    \/ EraseText
    \/ MoveCaret
    \/ Scroll

Spec == Init /\ [][Next]_vars

\* ------------------------------------------------------------------------
\* Desynchronisation: a command cut short between its two writes (the
\* settings and the regions are both kept across sessions), and an icon
\* removed from the region dictionary by something else.  The history in
\* pushlog starts afresh at each such event: it covers the markers pushed
\* since then.
\* ------------------------------------------------------------------------
\* Push ends after step 6: the stack is saved, the icon is never added.
PushInterrupted ==
    LET mstack == PushLoad(vw_settings) IN
    /\ Len(mstack) < MaxDepth
    /\ Len(sel) > 0
    /\ LET pt == PushCaret(sel)
           vppos == viewport
           icon_key == IconKey(Len(mstack))
       IN  /\ vw_settings' = PushSave(vw_settings, mstack, vppos)
           /\ pushlog' = <<>>
           /\ allocated' = allocated \cup {icon_key}
           /\ owned' = owned \ {icon_key}
           /\ last' = Observed("other", "none", <<>>, <<>>, <<>>)
           /\ UNCHANGED <<size, sel, viewport, regions, background>>

\* Pop ends after step 3: the stack is saved, the icon is never erased.
PopInterrupted ==
    /\ _stack_key \in DOMAIN vw_settings
    /\ Len(vw_settings[_stack_key]) > 0
    /\ vw_settings' = PopSave(vw_settings, vw_settings[_stack_key])
    /\ pushlog' = <<>>
    /\ owned' = owned \ {PopTop(vw_settings[_stack_key]).id}
    /\ last' = Observed("other", "none", <<>>, <<>>, <<>>)
    /\ UNCHANGED <<size, sel, viewport, regions, allocated, background>>

\* The icon of some key is erased without touching the stack.
EraseIconExternally ==
    \E k \in DOMAIN regions :
        /\ regions' = erase_regions(regions, k)
        /\ last' = Observed("other", "none", <<>>, <<>>, <<>>)
        /\ pushlog' = <<>>
        /\ owned' = owned \ {k}
        /\ UNCHANGED <<size, sel, viewport, vw_settings, allocated, background>>

NextDesync ==
    \/ Next
    \/ PushInterrupted
    \/ PopInterrupted
    \/ EraseIconExternally

SpecDesync == Init /\ [][NextDesync]_vars

\* ------------------------------------------------------------------------
\* A stack value written by something else: the settings of a View are
\* open to every package, and an empty list can be stored under the key.
\* ------------------------------------------------------------------------
EmptyStackStoredExternally ==
    /\ _stack_key \notin DOMAIN vw_settings
    /\ vw_settings' = SettingsSet(vw_settings, _stack_key, <<>>)
    /\ pushlog' = <<>>
    /\ last' = Observed("other", "none", <<>>, <<>>, <<>>)
    /\ UNCHANGED <<size, sel, viewport, regions, allocated, owned, background>>

NextForeign ==
    \/ Next
    \/ EmptyStackStoredExternally

SpecForeign == Init /\ [][NextForeign]_vars

\* ------------------------------------------------------------------------
\* Two Views: each command instance works on self.view, with that View's
\* own settings object and region dictionary.
\* ------------------------------------------------------------------------
\* Variant: the command works on one fixed View, whichever it was run on.
CommandViewFirst(invoked) == "this"

\* vw = self.view: the View the command was invoked on.
CommandView(invoked) == invoked

\* This View as one value.
ThisView ==
    [sel |-> sel, viewport |-> viewport, vw_settings |-> vw_settings,
     regions |-> regions]

\* MarkerStackPushCommand.run as a function of the View it works on.
PushView(vw) ==
    LET mstack == PushLoad(vw.vw_settings) IN
    IF Len(vw.sel) = 0
    THEN vw
    ELSE [vw EXCEPT
            !.vw_settings = PushSave(vw.vw_settings, mstack, vw.viewport),
            !.regions = PushIcon(vw.regions, IconKey(Len(mstack)),
                                 PushCaret(vw.sel))]

\* MarkerStackPopCommand.run as a function of the View it works on.
PopView(vw) ==
    IF _stack_key \notin DOMAIN vw.vw_settings
    THEN [vw EXCEPT !.regions = PopEmptyCleanup(vw.regions)]
    ELSE LET mstack == vw.vw_settings[_stack_key] IN
         IF Len(mstack) = 0
         THEN vw
         ELSE LET marker == PopTop(mstack)
                  rgns == PopFetch(vw.regions, marker.id)
              IN  [vw_settings |-> PopSave(vw.vw_settings, mstack),
                   regions |-> PopEraseIcon(vw.regions, marker.id),
                   viewport |-> marker.vp,
                   sel |-> PopSelection(vw.sel, rgns)]

\* A command invoked on the second View.
RunOnOther(cmd) ==
    LET target == CommandView("other")
        before == IF target = "other" THEN other ELSE ThisView
        after == IF cmd = "push" THEN PushView(before) ELSE PopView(before)
    IN  /\ cmd = "push" => Len(PushLoad(before.vw_settings)) < MaxDepth
        /\ last' = Observed(cmd \o " on other", "none", <<>>, <<>>, <<>>)
        /\ IF target = "other"
           THEN /\ other' = after
                /\ UNCHANGED <<sel, viewport, vw_settings, regions>>
           ELSE /\ sel' = after.sel
                /\ viewport' = after.viewport
                /\ vw_settings' = after.vw_settings
                /\ regions' = after.regions
                /\ other' = other
        /\ UNCHANGED <<size, pushlog, allocated, owned, ms_animate_scrolling,
                       _animate_scroll, run>>

PushOther == RunOnOther("push")

PopOther == RunOnOther("pop")

\* The user moves the caret and scrolls in the second View.
OtherViewMoves ==
    \E p \in 0..MaxSize, vp \in Viewports :
        /\ other' = [other EXCEPT !.sel = <<Region(p, p)>>, !.viewport = vp]
        /\ other' # other
        /\ last' = Observed("other", "none", <<>>, <<>>, <<>>)
        /\ UNCHANGED <<size, sel, viewport, vw_settings, regions, pushlog,
                       allocated, owned, ms_animate_scrolling,
                       _animate_scroll, run>>

NextTwoViews ==
    \/ MarkerStackPush
    \/ MarkerStackPop
    \/ PushOther
    \/ PopOther
    \/ OtherViewMoves

SpecTwoViews == Init /\ [][NextTwoViews]_vars

\* Whole commands on a View under any setting of "ms_animate_scrolling".
SpecConfigured == InitConfigured /\ [][Next]_vars

\* ------------------------------------------------------------------------
\* The commands statement by statement.  A TextCommand runs to its end on
\* the host's main thread: the host's own steps come between commands.
\* ------------------------------------------------------------------------
\* The writes of push, in the order of its statements (steps 6 and 7).
PushOrder == <<"save", "icon">>

\* Variant: the icon is erased before its regions are fetched.
PopOrderEraseFirst == <<"save", "erase", "fetch", "viewport", "caret">>

\* The reads and writes of pop on a marker, in the order of its statements
\* (steps 3 to 7).
PopOrder == <<"save", "fetch", "erase", "viewport", "caret">>

\* Push up to step 5: the stack is loaded, the caret and the viewport are
\* captured, the marker is created.  Nothing is written yet.
BeginPush ==
    LET mstack == PushLoad(vw_settings) IN
    /\ run = Idle
    /\ Len(mstack) < MaxDepth
    /\ Len(sel) > 0
    /\ run' = [Idle EXCEPT
                  !.cmd = "push", !.i = 1, !.mstack = mstack,
                  !.marker = <<MarkerStackMarker(viewport,
                                                 IconKey(Len(mstack)))>>,
                  !.pt = PushCaret(sel)]
    /\ UNCHANGED <<size, sel, viewport, vw_settings, regions, pushlog,
                   allocated, last, owned, ms_animate_scrolling,
                   _animate_scroll, other>>

\* Pop up to mstack.pop(): with no stack the command ends in its first
\* branch; otherwise the top marker is taken off the local list.
BeginPop ==
    /\ run = Idle
    /\ IF _stack_key \notin DOMAIN vw_settings
       THEN /\ regions' = PopEmptyCleanup(regions)
            /\ last' = Observed("pop", "none", <<>>, <<>>, <<>>)
            /\ UNCHANGED run
       ELSE LET mstack == vw_settings[_stack_key] IN
            IF Len(mstack) = 0
            THEN /\ last' = Observed("pop", "IndexError", <<>>, <<>>, <<>>)
                 /\ UNCHANGED <<regions, run>>
            ELSE /\ run' = [Idle EXCEPT
                               !.cmd = "pop", !.i = 1, !.mstack = mstack,
                               !.marker = <<PopTop(mstack)>>]
                 /\ UNCHANGED <<regions, last>>
    /\ UNCHANGED <<size, sel, viewport, vw_settings, pushlog, allocated,
                   owned, ms_animate_scrolling, _animate_scroll, other>>

\* The next statement of the command in progress.
StepCommand ==
    /\ run.cmd # "none"
    /\ LET order == IF run.cmd = "push" THEN PushOrder ELSE PopOrder
           op == order[run.i]
           marker == run.marker[1]
           finished == run.i = Len(order)
       IN  /\ vw_settings' =
                IF op = "save"
                THEN IF run.cmd = "push"
                     THEN PushSave(vw_settings, run.mstack, marker.vp)
                     ELSE PopSave(vw_settings, run.mstack)
                ELSE vw_settings
           /\ regions' =
                IF op = "icon" THEN PushIcon(regions, marker.id, run.pt)
                ELSE IF op = "erase" THEN PopEraseIcon(regions, marker.id)
                ELSE regions
           /\ viewport' = IF op = "viewport" THEN marker.vp ELSE viewport
           /\ sel' = IF op = "caret" THEN PopSelection(sel, run.rgns) ELSE sel
           /\ run' =
                IF finished
                THEN Idle
                ELSE [run EXCEPT
                         !.i = @ + 1,
                         !.rgns = IF op = "fetch"
                                  THEN PopFetch(regions, marker.id) ELSE @,
                         !.fetched = @ \/ op = "fetch"]
           /\ last' = IF finished
                      THEN Observed(run.cmd, "none", run.marker, run.rgns, <<>>)
                      ELSE last
    /\ UNCHANGED <<size, pushlog, allocated, owned, ms_animate_scrolling,
                   _animate_scroll, other>>

\* The host's steps, taken when no command is in progress.
InsertBetweenCommands == run = Idle /\ InsertText

EraseBetweenCommands == run = Idle /\ EraseText

MoveCaretBetweenCommands == run = Idle /\ MoveCaret

ScrollBetweenCommands == run = Idle /\ Scroll

NextSteps ==
    \/ BeginPush
    \/ BeginPop
    \/ StepCommand
    \/ InsertBetweenCommands
    \/ EraseBetweenCommands
    \/ MoveCaretBetweenCommands
    \/ ScrollBetweenCommands

SpecSteps == Init /\ [][NextSteps]_vars

\* ========================================================================
\* Properties
\* ========================================================================
\* A step that is a completed push / a pop (every other step records
\* another command in last).
PushStep == last'.cmd = "push" /\ last'.raised = "none"
PopStep == last'.cmd = "pop"

\* A pop that found no stack (the branch taken when the stack is None).
PoppedNoStack == last.cmd = "pop" /\ last.raised = "none" /\ last.marker = <<>>

\* A pop that took a marker off the stack.
PoppedMarker == last.cmd = "pop" /\ last.raised = "none" /\ last.marker # <<>>

\* C1: the value under "_marker_stack" is absent or a non-empty sequence,
\* never an empty one; popping the last remaining marker makes the key
\* absent, and pushing onto an absent stack makes the key present with
\* exactly one element.
C1_StackAbsentOrNonEmpty ==
    /\ HasStack => Len(Stack) >= 1
    /\ [][/\ HasStack' => Len(Stack') >= 1
          /\ (PopStep /\ HasStack /\ Len(Stack) = 1) => ~HasStack'
          /\ (PushStep /\ ~HasStack) => (HasStack' /\ Len(Stack') = 1)]_vars

C1_Witness == PoppedMarker /\ ~HasStack /\ Cardinality(allocated) = 1

\* C2: the keys present in the region dictionary are exactly the keys of
\* the markers on the persisted stack: no marker without its icon, no icon
\* without its marker.
C2_IconsMatchMarkers == DOMAIN regions = StackKeys

C2_Witness ==
    /\ PoppedMarker
    /\ Len(Stack) = 1
    /\ ~pushlog[1].clean
    /\ Cardinality(DOMAIN regions) = 1

\* C3: any two markers on the stack at the same time have distinct keys;
\* two pushes at the same buffer location give two entries with different
\* keys and two separate icons, neither overwriting the other.
C3_DistinctKeys ==
    \A i, j \in 1..Len(Stack) :
        i # j =>
            /\ Stack[i].id # Stack[j].id
            /\ Stack[i].id \in DOMAIN regions
            /\ Stack[j].id \in DOMAIN regions

C3_Witness ==
    /\ last.cmd = "push"
    /\ Len(Stack) = 2
    /\ pushlog[1].clean
    /\ pushlog[1].pt = pushlog[2].pt
    /\ regions[Stack[1].id] = regions[Stack[2].id]

\* C4: with no edit between a push and the pop that takes its marker off
\* the stack, the pop sets the caret and the viewport to exactly the caret
\* position and viewport position that push captured; markers come off in
\* reverse order of pushing.
C4_LIFO ==
    (PoppedMarker /\ last.entry # <<>> /\ last.entry[1].clean) =>
        /\ sel = <<Region(last.entry[1].pt, last.entry[1].pt)>>
        /\ viewport = last.entry[1].vp

C4_Witness ==
    /\ PoppedMarker
    /\ last.entry # <<>>
    /\ last.entry[1].clean
    /\ Len(Stack) = 1
    /\ pushlog[1].clean
    /\ pushlog[1].pt # last.entry[1].pt
    /\ pushlog[1].vp # last.entry[1].vp

\* C5: a pop places the caret at the position its marker's icon has in the
\* region dictionary at pop time (P'), also when edits have moved it away
\* from the point P the push captured.
C5_CaretFromIcon ==
    [][(/\ PopStep
        /\ HasStack
        /\ Len(Stack) > 0
        /\ Stack[Len(Stack)].id \in DOMAIN regions
        /\ Len(regions[Stack[Len(Stack)].id]) > 0)
       => LET pnow == regions[Stack[Len(Stack)].id][1].b
          IN  sel' = <<Region(pnow, pnow)>>]_vars

C5_Witness ==
    /\ PoppedMarker
    /\ last.rgns # <<>>
    /\ last.entry # <<>>
    /\ last.rgns[1].b # last.entry[1].pt
    /\ sel = <<last.rgns[1]>>

\* C6: when the top marker's icon is missing from the region dictionary,
\* pop raises no error, removes exactly that marker from the persisted
\* stack (erasing the key if it was the only one), restores the viewport to
\* the marker's stored position and leaves the selection unchanged.
C6_PopOnDesync ==
    [][(/\ PopStep
        /\ HasStack
        /\ Len(Stack) > 0
        /\ Stack[Len(Stack)].id \notin DOMAIN regions)
       => /\ last'.raised = "none"
          /\ Stack' = SubSeq(Stack, 1, Len(Stack) - 1)
          /\ HasStack' <=> Len(Stack) > 1
          /\ viewport' = Stack[Len(Stack)].vp
          /\ sel' = sel]_vars

C6_Witness ==
    /\ PoppedMarker
    /\ last.rgns = <<>>
    /\ viewport = last.marker[1].vp
    /\ Len(sel) = 2
    /\ Len(Stack) = 1

\* C7: pop on a view whose stack key is absent raises no error and changes
\* nothing: the key stays absent; the selection, the viewport and every
\* icon keyed prefix + index stay as they were.
C7_PopNoStackNoChange ==
    [][(PopStep /\ ~HasStack)
       => /\ last'.raised = "none"
          /\ ~HasStack'
          /\ sel' = sel
          /\ viewport' = viewport
          /\ \A k \in IndexedKeys :
                /\ k \in DOMAIN regions' <=> k \in DOMAIN regions
                /\ get_regions(regions', k) = get_regions(regions, k)]_vars

C7_Witness ==
    /\ PoppedNoStack
    /\ ~HasStack
    /\ DOMAIN regions \cap IndexedKeys # {}

\* C8 as stated: the key a push formulates was never formulated by an
\* earlier push on the view, popped or not.
C8_NeverReused ==
    [][PushStep => last'.marker[1].id \notin allocated]_vars

\* C8: the key a push formulates differs from the key of every earlier push
\* whose marker is still on the stack; the key of a popped marker is used
\* again by a later push at the same depth.
C8_FreshAmongLive ==
    [][PushStep => last'.marker[1].id \notin StackKeys]_vars

C8_Witness ==
    /\ last.cmd = "push"
    /\ last.raised = "none"
    /\ Len(Stack) = 1
    /\ Cardinality(allocated) = 2

\* C9: at the start of every push the key about to be formulated
\* (prefix + current stack length) is neither the key of a marker on the
\* stack nor the key of an icon in the region dictionary.
C9_NextKeyUnused ==
    IconKey(Len(PushLoad(vw_settings))) \notin (StackKeys \cup DOMAIN regions)

C9_Witness ==
    /\ PoppedMarker
    /\ Len(Stack) = 1
    /\ IconKey(1) \in allocated

\* C10: after a pop on a view with no stack, no icon keyed prefix + index
\* is left in the region dictionary.
C10_StrayIconsRemoved ==
    PoppedNoStack => DOMAIN regions \cap IndexedKeys = {}

C15_SingleCaret ==
    [][(/\ PopStep
        /\ HasStack
        /\ Len(Stack) > 0
        /\ get_regions(regions, Stack[Len(Stack)].id) # <<>>)
       => /\ Len(sel') = 1
          /\ sel'[1].a = sel'[1].b
          /\ sel'[1].b = get_regions(regions, Stack[Len(Stack)].id)[1].b]_vars

C15_Witness ==
    /\ PoppedMarker
    /\ last.rgns # <<>>
    /\ last.nsel = 2
    /\ Len(sel) = 1

C17_PopFrame ==
    [][(PopStep /\ HasStack /\ Len(Stack) >= 1)
       => /\ Stack' = SubSeq(Stack, 1, Len(Stack) - 1)
          /\ DOMAIN regions' = DOMAIN regions \ {Stack[Len(Stack)].id}
          /\ \A k \in DOMAIN regions' : regions'[k] = regions[k]]_vars

C17_Witness ==
    /\ PoppedMarker
    /\ last.rgns # <<>>
    /\ Len(Stack) = 1
    /\ Stack[1].id \in DOMAIN regions
    /\ Cardinality(DOMAIN regions) = 1

\* C18: with several carets at push time, push raises no error and makes
\* exactly one marker and exactly one icon, placed at the first caret.
C18_FirstCaretOnly ==
    [][(last'.cmd = "push" /\ Len(sel) > 1)
       => /\ last'.raised = "none"
          /\ Len(Stack') = Len(Stack) + 1
          /\ Cardinality(DOMAIN regions') = Cardinality(DOMAIN regions) + 1
          /\ regions'[Stack'[Len(Stack')].id]
                = <<Region(sel[1].b, sel[1].b)>>]_vars

C18_Witness ==
    /\ last.cmd = "push"
    /\ last.raised = "none"
    /\ last.nsel = 2
    /\ Len(sel) = 2
    /\ regions[Stack[Len(Stack)].id] = <<Region(sel[1].b, sel[1].b)>>

\* C20: the marker at 0-based stack index i carries the key
\* "_marker_stack_icon_" followed by i.
C20_KeysFollowIndex ==
    \A i \in 1..Len(Stack) :
        Stack[i].id = "_marker_stack_icon_" \o ToString(i - 1)

C20_Witness ==
    /\ last.cmd = "push"
    /\ Len(Stack) = 2
    /\ Cardinality(allocated) = 2
    /\ ~pushlog[1].clean

\* C19: the animate-scrolling option decides whether pop's viewport
\* restoration animates: every pop asks for animation when the option is
\* true, and for none when it is false or unset.
C19_AnimatePerOption ==
    PoppedMarker =>
        last.animate = IF ms_animate_scrolling = "true"
                       THEN "animated" ELSE "plain"

\* C13: also when commands are cut short between their two writes, a later
\* completed pop either puts the caret at the current position of the icon
\* made by the very push that made the popped marker, or leaves the caret
\* where it is; it never moves it to the icon of another push.
C13_OwnIconOrUnmoved ==
    [][(PopStep /\ HasStack /\ Len(Stack) > 0)
       => LET k == Stack[Len(Stack)].id
          IN  \/ sel' = sel
              \/ /\ k \in owned
                 /\ k \in DOMAIN regions
                 /\ sel' = <<regions[k][1]>>]_vars

\* C12: with two Views, a push or pop on one View leaves the other View's
\* persisted stack, icons, selection and viewport unchanged.
C12_ViewsIndependent ==
    [][/\ last'.cmd \in {"push", "pop"} => other' = other
       /\ last'.cmd \in {"push on other", "pop on other"} =>
            /\ vw_settings' = vw_settings
            /\ regions' = regions
            /\ sel' = sel
            /\ viewport' = viewport]_vars

C12_Witness ==
    /\ last.cmd = "pop on other"
    /\ Len(Stack) = 2
    /\ Cardinality(DOMAIN regions) = 2
    /\ _stack_key \in DOMAIN other.vw_settings
    /\ Cardinality(DOMAIN other.regions) = 1
    /\ other.viewport # viewport

\* C14: the writes of one command come in a fixed order.  In a push the
\* icon is added only once the lengthened stack is in the settings.  In a
\* pop the icon's regions are fetched only once the shortened stack is
\* saved (or the key erased), the icon is erased only once its regions
\* have been fetched, and the viewport and the selection are changed only
\* once the icon is gone.
C14_WriteOrder ==
    [][/\ (run.cmd = "push" /\ regions' # regions) =>
             /\ HasStack
             /\ Stack = Append(run.mstack, run.marker[1])
       /\ (run.cmd = "pop" /\ run'.fetched /\ ~run.fetched) =>
             Stack = SubSeq(run.mstack, 1, Len(run.mstack) - 1)
       /\ (run.cmd = "pop" /\ regions' # regions) => run.fetched
       /\ (run.cmd = "pop" /\ (viewport' # viewport \/ sel' # sel)) =>
             /\ run.fetched
             /\ run.marker[1].id \notin DOMAIN regions]_vars

\* A pop of the upper of two markers that has saved the stack, fetched the
\* icon's region and erased the icon, and is about to move the viewport
\* and the caret to other places than where they are.
C14_Witness ==
    /\ run.cmd = "pop" /\ PopOrder[run.i] = "viewport"
    /\ Len(run.mstack) = 2 /\ Len(Stack) = 1
    /\ run.fetched /\ Len(run.rgns) = 1
    /\ run.marker[1].id \notin DOMAIN regions
    /\ viewport # run.marker[1].vp
    /\ sel # run.rgns

====
